---- MODULE Spec2Model ----
(***************************************************************************)
(* A model of the drum-staff sketch editor (chosundeveloper/drumsheet).    *)
(*                                                                         *)
(* The repository holds three variants of the App component:               *)
(*   "single" : src/src/App.tsx lines 1-293, one fixed 16-column measure,  *)
(*              state = notes, hoverSlot;                                  *)
(*   "strip"  : src/unnamed/part_000, a score of measures laid out on one  *)
(*              horizontally growing staff;                                *)
(*   "rows"   : src/src/App.tsx lines 295-953, the same score wrapped into *)
(*              rows of MEASURES_PER_ROW measures.                         *)
(* The variant is fixed at Init; every event handler is one action.  React *)
(* runs each handler to completion and re-renders before the next event,   *)
(* so a handler's closure always holds the current state.                  *)
(*                                                                         *)
(* Pointer coordinates are the handler's x and y, i.e. the client          *)
(* coordinates already scaled into viewBox units, taken as integers.       *)
(* Indices are 0-based as in the source; measures[i + 1] is measure i.     *)
(***************************************************************************)
EXTENDS Integers, Sequences, FiniteSets, TLC

VARIABLES variant, measures, currentMeasure, clipboard, hoverSlot, zoom,
          selectedDuration, notes

vars == <<variant, measures, currentMeasure, clipboard, hoverSlot, zoom,
          selectedDuration, notes>>

----------------------------------------------------------------------------
(* Bounds of the model *)

\* most measures the score grows to
MaxMeasures == 2
\* most notes held at once by the score and the clipboard together (by the
\* note list in "single")
MaxNotes == 2
\* most notes of the one measure of the insertion sessions (SpecInsert)
MaxInsertNotes == 3
\* most measures of the pointer sessions (SpecPointer): five measures make a
\* second row in the rows variant
MaxPointerMeasures == 5

Variants == {"single", "strip", "rows"}

\* pointer positions <<x, y>> offered to handlePointerMove: x in viewBox
\* units, y in halves of a viewBox unit (the voice lines lie on whole units,
\* the hover threshold 17.5 on a half).
\* x: 10 -> column -1, 175 -> 2, 227 -> 3, 279 -> 4, 382 -> 6, 900 -> 16.
\* y: 68 is the hi-hat line (34), 194 is halfway (97) between snare (90) and
\* high tom (104), 340 is 24 below the kick line (146).
Pointers ==
  { <<10, 194>>, <<175, 68>>, <<175, 194>>, <<227, 194>>, <<900, 194>>, <<175, 340>> }
\* pointer positions of the insertion sessions
InsertPointers ==
  { <<175, 68>>, <<175, 194>>, <<227, 194>>, <<279, 194>>, <<382, 194>> }
\* pointer positions of the pointer sessions.
\* x: 46 -> column -1; 47 -> 0; 459 -> 7; 460 (halfway between the columns 7
\* and 8) -> 8; 873 -> 15; 874, 900 -> 16; 1236 (halfway between 22 and 23)
\* -> 23; 3383 -> 64.
PointerXs == {46, 47, 459, 460, 873, 874, 900, 1236, 3383}
\* y, in halves: 32 and 33 are 18 and 17.5 above the hi-hat line; 194 is
\* halfway between snare and high tom, 195 nearer to the high tom; 250 is 21
\* from high tom and kick alike; 327 and 328 are 17.5 and 18 below the kick
\* line.
PointerYs == {32, 33, 194, 195, 250, 327, 328}
SpecPointers == PointerXs \X PointerYs
\* slider positions offered to handleZoomChange, in percent
ZoomValues == {100, 145}

----------------------------------------------------------------------------
(* Constants of the program *)

NOTE_ROWS ==
  << [id |-> "hh", row |-> 0],
     [id |-> "sn", row |-> 4],
     [id |-> "ht", row |-> 5],
     [id |-> "bd", row |-> 8] >>

STAFF_width == 920
STAFF_paddingX == 72
STAFF_paddingY == 48
STAFF_lineSpacing == 28
STAFF_subdivisions == 16

DEFAULT_SUBDIVISIONS == STAFF_subdivisions
MEASURES_PER_ROW == 4

baseContentWidth == STAFF_width - STAFF_paddingX * 2
\* COLUMN_STEP = baseContentWidth / (STAFF.subdivisions - 1), kept as a fraction
COLUMN_STEP_num == baseContentWidth
COLUMN_STEP_den == STAFF_subdivisions - 1
topLineY == STAFF_paddingY
\* noteStep = lineSpacing / 2 = 14
noteStep == STAFF_lineSpacing \div 2
\* MAX_HOVER_DISTANCE = noteStep * 1.25 = 17.5, kept as 4 * distance <= 5 * noteStep
MAX_HOVER_DISTANCE_x4 == noteStep * 5

DURATION_OPTIONS == {1, 2}

Null == <<>>
Some(x) == <<x>>

EmptyMeasure == [subdivisions |-> DEFAULT_SUBDIVISIONS, notes |-> <<>>]

----------------------------------------------------------------------------
(* Pure helpers *)

RECURSIVE SumSubdivisions(_, _)
\* cursor after the first k measures (measureOffsets[k].start, 0-based k)
SumSubdivisions(ms, k) ==
  IF k = 0 THEN 0 ELSE SumSubdivisions(ms, k - 1) + ms[k].subdivisions

\* measureOffsets[index] of the source, index 0-based
measureOffsets(ms, index) ==
  [start |-> SumSubdivisions(ms, index), subdivisions |-> ms[index + 1].subdivisions]

totalColumns(ms) ==
  IF Len(ms) = 0
    THEN DEFAULT_SUBDIVISIONS
    ELSE measureOffsets(ms, Len(ms) - 1).start + measureOffsets(ms, Len(ms) - 1).subdivisions

Max(a, b) == IF a >= b THEN a ELSE b
Min(a, b) == IF a <= b THEN a ELSE b
Abs(a) == IF a < 0 THEN -a ELSE a

\* staffWidth of the strip variant, times COLUMN_STEP_den
staffWidth_xDen(ms) ==
  Max(STAFF_width * COLUMN_STEP_den,
      STAFF_paddingX * 2 * COLUMN_STEP_den + COLUMN_STEP_num * Max(totalColumns(ms) - 1, 0))

\* computeRowWidth of the rows variant, times COLUMN_STEP_den
computeRowWidth_xDen(subdivisions) ==
  STAFF_paddingX * 2 * COLUMN_STEP_den + COLUMN_STEP_num * Max(subdivisions - 1, 0)

\* rows of the rows variant: one per MEASURES_PER_ROW measures, 0-based rowIndex
NumRows(ms) == (Len(ms) + MEASURES_PER_ROW - 1) \div MEASURES_PER_ROW

rows(ms, rowIndex) ==
  LET measureStartIndex == rowIndex * MEASURES_PER_ROW
      measureCount == Min(MEASURES_PER_ROW, Len(ms) - measureStartIndex)
  IN  [start |-> SumSubdivisions(ms, measureStartIndex),
       subdivisions |-> SumSubdivisions(ms, measureStartIndex + measureCount)
                          - SumSubdivisions(ms, measureStartIndex)]

\* xForColumn of the strip and single-measure variants and xForColumnInRow
\* of the rows variant, times COLUMN_STEP_den
xForColumn_xDen(column) == STAFF_paddingX * COLUMN_STEP_den + column * COLUMN_STEP_num
xForColumnInRow_xDen(column, rowStart) ==
  STAFF_paddingX * COLUMN_STEP_den + (column - rowStart) * COLUMN_STEP_num

yForRow(row) == topLineY + (row - 1) * noteStep

\* RoundColumn with Math.floor in the place of Math.round
RoundColumnFloor(x) == ((x - STAFF_paddingX) * COLUMN_STEP_den) \div COLUMN_STEP_num

\* Math.round((x - paddingX) / COLUMN_STEP): nearest integer, halves rounded up
RoundColumn(x) ==
  ((x - STAFF_paddingX) * COLUMN_STEP_den * 2 + COLUMN_STEP_num) \div (COLUMN_STEP_num * 2)

RECURSIVE ClosestRowFrom(_, _, _, _)
\* the loop over NOTE_ROWS from index i on, carrying (closestRow, smallestDistance);
\* closest = 0 stands for null with smallestDistance = +Infinity.  y and the
\* distances are in halves of a viewBox unit.
ClosestRowFrom(i, y, closest, smallest) ==
  IF i > Len(NOTE_ROWS)
    THEN [closestRow |-> closest, smallestDistance |-> smallest]
    ELSE LET distance == Abs(2 * yForRow(NOTE_ROWS[i].row) - y)
         IN  IF closest = 0 \/ distance < smallest
               THEN ClosestRowFrom(i + 1, y, i, distance)
               ELSE ClosestRowFrom(i + 1, y, closest, smallest)

ClosestRow(y) == ClosestRowFrom(1, y, 0, 0)

\* RowRejected with >= in the place of >: a pointer exactly
\* MAX_HOVER_DISTANCE from the nearest line is rejected
RowRejectedInclusive(y) ==
  \/ ClosestRow(y).closestRow = 0
  \/ ClosestRow(y).smallestDistance * 2 >= MAX_HOVER_DISTANCE_x4

\* !closestRow || smallestDistance > MAX_HOVER_DISTANCE
RowRejected(y) ==
  \/ ClosestRow(y).closestRow = 0
  \/ ClosestRow(y).smallestDistance * 2 > MAX_HOVER_DISTANCE_x4

ClosestRowId(y) == NOTE_ROWS[ClosestRow(y).closestRow].id

\* rowOrder.get(rowId)
rowOrder(rowId) == CHOOSE i \in 0..(Len(NOTE_ROWS) - 1) : NOTE_ROWS[i + 1].id = rowId

RECURSIVE LocateFromInclusive(_, _, _)
\* LocateFrom with <= in the place of < at the end of a measure's span
LocateFromInclusive(ms, index, column) ==
  IF index >= Len(ms)
    THEN IF Len(ms) = 0
           THEN Null
           ELSE Some([measureIndex |-> Len(ms) - 1,
                      columnInMeasure |-> ms[Len(ms)].subdivisions - 1])
    ELSE LET off == measureOffsets(ms, index)
         IN  IF column >= off.start /\ column <= off.start + off.subdivisions
               THEN Some([measureIndex |-> index, columnInMeasure |-> column - off.start])
               ELSE LocateFromInclusive(ms, index + 1, column)

RECURSIVE LocateFrom(_, _, _)
LocateFrom(ms, index, column) ==
  IF index >= Len(ms)
    THEN IF Len(ms) = 0
           THEN Null
           ELSE Some([measureIndex |-> Len(ms) - 1,
                      columnInMeasure |-> ms[Len(ms)].subdivisions - 1])
    ELSE LET off == measureOffsets(ms, index)
         IN  IF column >= off.start /\ column < off.start + off.subdivisions
               THEN Some([measureIndex |-> index, columnInMeasure |-> column - off.start])
               ELSE LocateFrom(ms, index + 1, column)

locateMeasure(ms, column) == LocateFrom(ms, 0, column)

\* the comparator of the sorts: column, then rowOrder
NoteBefore(a, b) ==
  IF a.column # b.column THEN a.column < b.column ELSE rowOrder(a.rowId) < rowOrder(b.rowId)

RECURSIVE InsertSorted(_, _)
InsertSorted(sorted, n) ==
  IF sorted = <<>> THEN <<n>>
  ELSE IF NoteBefore(n, Head(sorted)) THEN <<n>> \o sorted
  ELSE <<Head(sorted)>> \o InsertSorted(Tail(sorted), n)

RECURSIVE SortNotes(_)
\* Array.prototype.sort with the comparator above (stable)
SortNotes(ns) ==
  IF ns = <<>> THEN <<>>
  ELSE InsertSorted(SortNotes(SubSeq(ns, 1, Len(ns) - 1)), ns[Len(ns)])

RECURSIVE ConcatNotes(_, _)
\* the notes of the first k measures, one after the other, columns as stored
ConcatNotes(ms, k) ==
  IF k = 0 THEN <<>> ELSE ConcatNotes(ms, k - 1) \o ms[k].notes

\* flattenedNotes without the measures' offsets
flattenedNotesLocal(ms) == SortNotes(ConcatNotes(ms, Len(ms)))

RECURSIVE FlattenFrom(_, _)
\* the array "flattened" after the forEach over the first k measures
FlattenFrom(ms, k) ==
  IF k = 0
    THEN <<>>
    ELSE LET offset == measureOffsets(ms, k - 1).start
         IN  FlattenFrom(ms, k - 1) \o
               [i \in 1..Len(ms[k].notes) |->
                  [column |-> offset + ms[k].notes[i].column,
                   rowId |-> ms[k].notes[i].rowId,
                   duration |-> ms[k].notes[i].duration]]

\* flattenedNotes of the rows variant, renderNotes of the strip variant
flattenedNotes(ms) == SortNotes(FlattenFrom(ms, Len(ms)))

----------------------------------------------------------------------------
(* Score operations, as the state updaters of the handlers compute them *)

\* InsertNote shifting only the notes behind the insertion column
\* (note.column > columnInMeasure)
InsertNoteShiftStrict(measure, slot) ==
  LET shiftedNotes ==
        [i \in 1..Len(measure.notes) |->
           IF measure.notes[i].column > slot.columnInMeasure
             THEN [measure.notes[i] EXCEPT !.column = @ + slot.duration]
             ELSE measure.notes[i]]
  IN  IF \E i \in 1..Len(shiftedNotes) :
           /\ shiftedNotes[i].column = slot.columnInMeasure
           /\ shiftedNotes[i].rowId = slot.rowId
        THEN measure
        ELSE [subdivisions |-> measure.subdivisions + slot.duration,
              notes |-> SortNotes(Append(shiftedNotes,
                                         [column |-> slot.columnInMeasure,
                                          rowId |-> slot.rowId,
                                          duration |-> slot.duration]))]

\* InsertNote appending to the unshifted notes (nextNotes built from
\* measure.notes instead of shiftedNotes)
InsertNoteUnshifted(measure, slot) ==
  [subdivisions |-> measure.subdivisions + slot.duration,
   notes |-> SortNotes(Append(measure.notes,
                              [column |-> slot.columnInMeasure, rowId |-> slot.rowId,
                               duration |-> slot.duration]))]

\* InsertNote testing the conflict on the notes before the shift, so that a
\* click on an occupied slot is rejected
InsertNoteRejecting(measure, slot) ==
  IF \E i \in 1..Len(measure.notes) :
       /\ measure.notes[i].column = slot.columnInMeasure
       /\ measure.notes[i].rowId = slot.rowId
    THEN measure
    ELSE [subdivisions |-> measure.subdivisions + slot.duration,
          notes |-> SortNotes(Append(
            [i \in 1..Len(measure.notes) |->
               IF measure.notes[i].column >= slot.columnInMeasure
                 THEN [measure.notes[i] EXCEPT !.column = @ + slot.duration]
                 ELSE measure.notes[i]],
            [column |-> slot.columnInMeasure, rowId |-> slot.rowId,
             duration |-> slot.duration]))]

\* the updater of handleClick for the measure the hover addresses
InsertNote(measure, slot) ==
  LET shiftedNotes ==
        [i \in 1..Len(measure.notes) |->
           IF measure.notes[i].column >= slot.columnInMeasure
             THEN [measure.notes[i] EXCEPT !.column = @ + slot.duration]
             ELSE measure.notes[i]]
      conflict ==
        \E i \in 1..Len(shiftedNotes) :
          /\ shiftedNotes[i].column = slot.columnInMeasure
          /\ shiftedNotes[i].rowId = slot.rowId
      nextNotes ==
        Append(shiftedNotes,
               [column |-> slot.columnInMeasure, rowId |-> slot.rowId,
                duration |-> slot.duration])
  IN  IF conflict
        THEN measure
        ELSE [subdivisions |-> measure.subdivisions + slot.duration,
              notes |-> SortNotes(nextNotes)]

\* ClickMeasures without the test of the index: every measure gets the note
ClickMeasuresEvery(ms, slot) ==
  [i \in 1..Len(ms) |-> InsertNote(ms[i], slot)]

\* setMeasures(current => current.map(...)) of handleClick
ClickMeasures(ms, slot) ==
  [i \in 1..Len(ms) |->
     IF i - 1 # slot.measureIndex THEN ms[i] ELSE InsertNote(ms[i], slot)]

\* ClearMeasure dropping the notes and keeping the subdivision count
ClearMeasureKeepWidth(ms, cur) ==
  [i \in 1..Len(ms) |-> IF i - 1 = cur THEN [ms[i] EXCEPT !.notes = <<>>] ELSE ms[i]]

\* ClearMeasure resetting the subdivision count and keeping the notes
ClearMeasureKeepNotes(ms, cur) ==
  [i \in 1..Len(ms) |->
     IF i - 1 = cur THEN [ms[i] EXCEPT !.subdivisions = DEFAULT_SUBDIVISIONS] ELSE ms[i]]

\* setMeasures(...) of handleClear
ClearMeasure(ms, cur) ==
  [i \in 1..Len(ms) |-> IF i - 1 = cur THEN EmptyMeasure ELSE ms[i]]

\* CopyMeasure taking the default subdivision count instead of the measure's
CopyMeasureDefaultWidth(ms, cur) ==
  Some([subdivisions |-> DEFAULT_SUBDIVISIONS, notes |-> ms[cur + 1].notes])

\* the value handleCopyMeasure gives to setClipboard
CopyMeasure(ms, cur) ==
  Some([subdivisions |-> ms[cur + 1].subdivisions,
        notes |-> [i \in 1..Len(ms[cur + 1].notes) |-> ms[cur + 1].notes[i]]])

\* PasteMeasure overwriting the first measure instead of the current one
PasteMeasureFirst(ms, cur, clip) ==
  [i \in 1..Len(ms) |-> IF i = 1 THEN clip ELSE ms[i]]

\* PasteMeasure taking the clipboard's notes and keeping the measure's own
\* subdivision count
PasteMeasureKeepWidth(ms, cur, clip) ==
  [i \in 1..Len(ms) |->
     IF i - 1 = cur
       THEN [subdivisions |-> ms[i].subdivisions,
             notes |-> [j \in 1..Len(clip.notes) |-> clip.notes[j]]]
       ELSE ms[i]]

\* setMeasures(...) of handlePasteMeasure, clip being the clipboard's measure
PasteMeasure(ms, cur, clip) ==
  [i \in 1..Len(ms) |->
     IF i - 1 = cur
       THEN [subdivisions |-> clip.subdivisions,
             notes |-> [j \in 1..Len(clip.notes) |-> clip.notes[j]]]
       ELSE ms[i]]

\* NextIndex wrapping around at the last measure instead of staying
NextIndexWrap(ms, index) == (index + 1) % Len(ms)

\* setCurrentMeasure updaters
PrevIndex(index) == Max(0, index - 1)
NextIndex(ms, index) == Min(Len(ms) - 1, index + 1)

\* the single-measure variant's setNotes updater of handleClick
SingleClickNotes(current, slot) ==
  IF \E i \in 1..Len(current) :
       current[i].column = slot.column /\ current[i].rowId = slot.rowId
    THEN current
    ELSE Append(current, slot)

\* StripHover without the upper limit of the column test
StripHoverNoUpperLimit(ms, x, y, duration) ==
  LET column == RoundColumn(x)
      location == locateMeasure(ms, column)
  IN  IF column < 0 THEN Null
      ELSE IF RowRejected(y) THEN Null
      ELSE IF location = Null THEN Null
      ELSE Some([measureIndex |-> location[1].measureIndex,
                 column |-> column,
                 columnInMeasure |-> location[1].columnInMeasure,
                 rowId |-> ClosestRowId(y),
                 duration |-> duration])

\* what handlePointerMove of the strip variant passes to setHoverSlot
StripHover(ms, x, y, duration) ==
  LET column == RoundColumn(x)
      location == locateMeasure(ms, column)
  IN  IF column < 0 \/ column >= totalColumns(ms) THEN Null
      ELSE IF RowRejected(y) THEN Null
      ELSE IF location = Null THEN Null
      ELSE Some([measureIndex |-> location[1].measureIndex,
                 column |-> column,
                 columnInMeasure |-> location[1].columnInMeasure,
                 rowId |-> ClosestRowId(y),
                 duration |-> duration])

\* what handlePointerMove(event, rowStart, rowSubdivisions) of the rows variant
\* passes to setHoverSlot
RowsHover(ms, x, y, rowStart, rowSubdivisions, duration) ==
  LET column == RoundColumn(x) + rowStart
      location == locateMeasure(ms, column)
  IN  IF column < rowStart \/ column >= rowStart + rowSubdivisions THEN Null
      ELSE IF RowRejected(y) THEN Null
      ELSE IF location = Null THEN Null
      ELSE Some([measureIndex |-> location[1].measureIndex,
                 column |-> column,
                 columnInMeasure |-> location[1].columnInMeasure,
                 rowId |-> ClosestRowId(y),
                 duration |-> duration,
                 rowStart |-> rowStart])

\* what handlePointerMove of the single-measure variant passes to setHoverSlot
SingleHover(x, y) ==
  LET column == RoundColumn(x)
  IN  IF column < 0 \/ column >= STAFF_subdivisions THEN Null
      ELSE IF RowRejected(y) THEN Null
      ELSE Some([column |-> column, rowId |-> ClosestRowId(y)])

RECURSIVE TotalNotes(_)
TotalNotes(ms) ==
  IF ms = <<>> THEN 0 ELSE Len(Head(ms).notes) + TotalNotes(Tail(ms))

----------------------------------------------------------------------------
(* Initial state: the useState initial values *)

Init ==
  /\ variant \in Variants
  /\ measures = <<EmptyMeasure>>
  /\ currentMeasure = 0
  /\ clipboard = Null
  /\ hoverSlot = Null
  /\ zoom = 145
  /\ selectedDuration = 1
  /\ notes = <<>>

\* notes held by the score and the clipboard together
NotesHeld(ms, clip) ==
  TotalNotes(ms) + (IF clip = Null THEN 0 ELSE Len(clip[1].notes))

----------------------------------------------------------------------------
(* Handlers of the measure-based variants ("strip" and "rows").  A handler  *)
(* is taken whenever its event can reach it.  The buttons' disabled         *)
(* attributes only remove invocations that the handler itself turns into a  *)
(* no-op (prev at 0, next at the end, clear of an empty measure, paste      *)
(* without clipboard); the one exception is Copy, whose button is disabled  *)
(* on an empty measure while its handler would copy it: that guard is kept. *)
(* Handlers that take pointer positions or a note budget get them as        *)
(* parameters, so that the specifications below can offer different inputs  *)
(* to the same handler.                                                     *)

\* handlePointerMove of the strip variant with the pointer at p, a position
\* inside the staff
PointerAtStrip(p) ==
  /\ variant = "strip"
  /\ p[1] * COLUMN_STEP_den <= staffWidth_xDen(measures)
  /\ hoverSlot' = StripHover(measures, p[1], p[2], selectedDuration)
  /\ UNCHANGED <<variant, measures, currentMeasure, clipboard, zoom, selectedDuration, notes>>

PointerMoveStrip(pointers) == \E p \in pointers : PointerAtStrip(p)

\* handlePointerMove of the rows variant with the pointer at p, a position
\* inside the staff of the row rowIndex
PointerAtRows(rowIndex, p) ==
  /\ variant = "rows"
  /\ rowIndex \in 0..(NumRows(measures) - 1)
  /\ LET row == rows(measures, rowIndex)
     IN  /\ p[1] * COLUMN_STEP_den <= computeRowWidth_xDen(row.subdivisions)
         /\ hoverSlot' = RowsHover(measures, p[1], p[2], row.start, row.subdivisions,
                                   selectedDuration)
  /\ UNCHANGED <<variant, measures, currentMeasure, clipboard, zoom, selectedDuration, notes>>

PointerMoveRows(pointers) ==
  \E rowIndex \in 0..(NumRows(measures) - 1), p \in pointers : PointerAtRows(rowIndex, p)

HandleMouseLeave ==
  /\ hoverSlot' = Null
  /\ UNCHANGED <<variant, measures, currentMeasure, clipboard, zoom, selectedDuration, notes>>

HandleZoomChange ==
  /\ variant # "single"
  /\ \E value \in ZoomValues : zoom' = value
  /\ UNCHANGED <<variant, measures, currentMeasure, clipboard, hoverSlot, selectedDuration, notes>>

\* HandleNoteDurationChange without the setHoverSlot call
HandleNoteDurationChangeKeepHover ==
  /\ variant # "single"
  /\ \E value \in DURATION_OPTIONS : selectedDuration' = value
  /\ UNCHANGED <<variant, measures, currentMeasure, clipboard, hoverSlot, zoom, notes>>

HandleNoteDurationChange ==
  /\ variant # "single"
  /\ \E value \in DURATION_OPTIONS :
       /\ selectedDuration' = value
       /\ hoverSlot' = IF hoverSlot # Null
                         THEN Some([hoverSlot[1] EXCEPT !.duration = value])
                         ELSE hoverSlot
  /\ UNCHANGED <<variant, measures, currentMeasure, clipboard, zoom, notes>>

\* ClickHover leaving the hover in every variant
ClickHoverKeep(v, slot) == slot

\* what handleClick passes to setHoverSlot: the rows variant clears the hover
\* (App.tsx line 617), the strip variant leaves it
ClickHover(v, slot) == IF v = "rows" THEN Null ELSE slot

Click(budget) ==
  /\ variant # "single"
  /\ hoverSlot # Null
  /\ NotesHeld(measures, clipboard) < budget
  /\ measures' = ClickMeasures(measures, hoverSlot[1])
  /\ hoverSlot' = ClickHover(variant, hoverSlot)
  /\ UNCHANGED <<variant, currentMeasure, clipboard, zoom, selectedDuration, notes>>

\* HandleClear without the early return on a measure without notes
HandleClearAlways ==
  /\ variant # "single"
  /\ measures' = ClearMeasure(measures, currentMeasure)
  /\ hoverSlot' = Null
  /\ UNCHANGED <<variant, currentMeasure, clipboard, zoom, selectedDuration, notes>>

\* HandleClear without the setHoverSlot call
HandleClearKeepHover ==
  /\ variant # "single"
  /\ IF Len(measures[currentMeasure + 1].notes) = 0
       THEN UNCHANGED measures
       ELSE measures' = ClearMeasure(measures, currentMeasure)
  /\ UNCHANGED <<variant, currentMeasure, clipboard, hoverSlot, zoom, selectedDuration, notes>>

HandleClear ==
  /\ variant # "single"
  /\ IF Len(measures[currentMeasure + 1].notes) = 0
       THEN UNCHANGED <<measures, hoverSlot>>
       ELSE /\ measures' = ClearMeasure(measures, currentMeasure)
            /\ hoverSlot' = Null
  /\ UNCHANGED <<variant, currentMeasure, clipboard, zoom, selectedDuration, notes>>

\* HandlePrevMeasure returning at once on the first measure, as its disabled
\* button suggests
HandlePrevMeasureEarlyReturn ==
  /\ variant # "single"
  /\ IF currentMeasure = 0
       THEN UNCHANGED <<currentMeasure, hoverSlot>>
       ELSE /\ currentMeasure' = PrevIndex(currentMeasure)
            /\ hoverSlot' = Null
  /\ UNCHANGED <<variant, measures, clipboard, zoom, selectedDuration, notes>>

HandlePrevMeasure ==
  /\ variant # "single"
  /\ currentMeasure' = PrevIndex(currentMeasure)
  /\ hoverSlot' = Null
  /\ UNCHANGED <<variant, measures, clipboard, zoom, selectedDuration, notes>>

HandleNextMeasure ==
  /\ variant # "single"
  /\ currentMeasure' = NextIndex(measures, currentMeasure)
  /\ hoverSlot' = Null
  /\ UNCHANGED <<variant, measures, clipboard, zoom, selectedDuration, notes>>

\* AddIndex one short: the index of the old last measure
AddIndexOldLast(ms) == Len(ms) - 1

\* AddMeasure appending two measures
AddMeasureTwice(ms) == Append(Append(ms, EmptyMeasure), EmptyMeasure)

\* setMeasures and setCurrentMeasure of handleAddMeasure
AddMeasure(ms) == Append(ms, EmptyMeasure)
AddIndex(ms) == Len(ms)

\* handleAddMeasure while the score has fewer than limit measures
AddMeasureUpTo(limit) ==
  /\ variant # "single"
  /\ Len(measures) < limit
  /\ measures' = AddMeasure(measures)
  /\ currentMeasure' = AddIndex(measures)
  /\ hoverSlot' = Null
  /\ UNCHANGED <<variant, clipboard, zoom, selectedDuration, notes>>

HandleAddMeasure == AddMeasureUpTo(MaxMeasures)

HandleCopyMeasure ==
  /\ variant # "single"
  /\ Len(measures[currentMeasure + 1].notes) # 0
  /\ NotesHeld(measures, CopyMeasure(measures, currentMeasure)) <= MaxNotes
  /\ clipboard' = CopyMeasure(measures, currentMeasure)
  /\ UNCHANGED <<variant, measures, currentMeasure, hoverSlot, zoom, selectedDuration, notes>>

HandlePasteMeasure ==
  /\ variant # "single"
  /\ IF clipboard = Null
       THEN UNCHANGED <<measures, hoverSlot>>
       ELSE /\ NotesHeld(PasteMeasure(measures, currentMeasure, clipboard[1]), clipboard)
                 <= MaxNotes
            /\ measures' = PasteMeasure(measures, currentMeasure, clipboard[1])
            /\ hoverSlot' = Null
  /\ UNCHANGED <<variant, currentMeasure, clipboard, zoom, selectedDuration, notes>>

----------------------------------------------------------------------------
(* Handlers of the single-measure variant *)

\* handlePointerMove with the pointer at p, a position inside the staff
PointerAtSingle(p) ==
  /\ variant = "single"
  /\ p[1] <= STAFF_width
  /\ hoverSlot' = SingleHover(p[1], p[2])
  /\ UNCHANGED <<variant, measures, currentMeasure, clipboard, zoom, selectedDuration, notes>>

PointerMoveSingle(pointers) == \E p \in pointers : PointerAtSingle(p)

SingleHandlePointerMove == PointerMoveSingle(Pointers)

SingleHandleClick ==
  /\ variant = "single"
  /\ hoverSlot # Null
  /\ Len(notes) < MaxNotes
  /\ notes' = SingleClickNotes(notes, hoverSlot[1])
  /\ UNCHANGED <<variant, measures, currentMeasure, clipboard, hoverSlot, zoom, selectedDuration>>

SingleHandleClear ==
  /\ variant = "single"
  /\ notes' = <<>>
  /\ UNCHANGED <<variant, measures, currentMeasure, clipboard, hoverSlot, zoom, selectedDuration>>

----------------------------------------------------------------------------
(* Specifications *)

HandlePointerMoveStrip == PointerMoveStrip(Pointers)
HandlePointerMoveRows == PointerMoveRows(Pointers)
HandleClick == Click(MaxNotes)

\* every handler of every variant
Next ==
  \/ HandlePointerMoveStrip
  \/ HandlePointerMoveRows
  \/ HandleMouseLeave
  \/ HandleZoomChange
  \/ HandleNoteDurationChange
  \/ HandleClick
  \/ HandleClear
  \/ HandlePrevMeasure
  \/ HandleNextMeasure
  \/ HandleAddMeasure
  \/ HandleCopyMeasure
  \/ HandlePasteMeasure
  \/ SingleHandlePointerMove
  \/ SingleHandleClick
  \/ SingleHandleClear

Spec == Init /\ [][Next]_vars

\* Insertion sessions: the measure-based variants right after start-up, the
\* user only moving the pointer, choosing durations, clicking and adding
\* measures, with more pointer positions and a larger note budget than Spec
\* affords.
InitInsert == Init /\ variant # "single"

InsertPointerMoveStrip == PointerMoveStrip(InsertPointers)
InsertPointerMoveRows == PointerMoveRows(InsertPointers)
InsertClick == Click(MaxInsertNotes)

NextInsert ==
  \/ InsertPointerMoveStrip
  \/ InsertPointerMoveRows
  \/ HandleMouseLeave
  \/ HandleNoteDurationChange
  \/ HandleAddMeasure
  \/ InsertClick

SpecInsert == InitInsert /\ [][NextInsert]_vars

\* Pointer sessions: the user only moves the pointer over the staff, leaves
\* it, chooses durations and adds measures, with pointer positions at and
\* around every limit of the lookups and enough measures for a second row.
SpecPointerMoveStrip == PointerMoveStrip(SpecPointers)
SpecPointerMoveRows == PointerMoveRows(SpecPointers)
SpecPointerMoveSingle == PointerMoveSingle(SpecPointers)
SpecPointerAddMeasure == AddMeasureUpTo(MaxPointerMeasures)

NextPointer ==
  \/ SpecPointerMoveStrip
  \/ SpecPointerMoveRows
  \/ SpecPointerMoveSingle
  \/ HandleMouseLeave
  \/ HandleNoteDurationChange
  \/ SpecPointerAddMeasure

SpecPointer == Init /\ [][NextPointer]_vars

----------------------------------------------------------------------------
(* Properties *)

Range(f) == {f[i] : i \in DOMAIN f}

NoDuplicateSlot(ns) ==
  \A i, j \in 1..Len(ns) :
    i # j => ~(ns[i].column = ns[j].column /\ ns[i].rowId = ns[j].rowId)

\* C1: in every reachable state no measure holds two notes with the same
\* (column, voice) pair, and neither does the note list of the single-measure
\* variant.
C1_NoDuplicateSlot ==
  /\ \A m \in 1..Len(measures) : NoDuplicateSlot(measures[m].notes)
  /\ NoDuplicateSlot(notes)

\* a measure holds two notes of one voice: a click went to a voice that was
\* already present in the measure
C1_Witness ==
  \E m \in 1..Len(measures) :
    /\ Len(measures[m].notes) = 2
    /\ measures[m].notes[1].rowId = measures[m].notes[2].rowId

\* the note n after an insertion of duration d at column c
Shifted(n, c, d) == IF n.column >= c THEN [n EXCEPT !.column = @ + d] ELSE n

\* the effect of a committed insertion of the hover h on the measures
InsertionEffect(h) ==
  LET m == h.measureIndex + 1
      c == h.columnInMeasure
      d == h.duration
  IN  /\ Len(measures') = Len(measures)
      /\ \A i \in 1..Len(measures) : i # m => measures'[i] = measures[i]
      /\ measures'[m].subdivisions = measures[m].subdivisions + d
      /\ Len(measures'[m].notes) = Len(measures[m].notes) + 1
      /\ Range(measures'[m].notes) =
           {Shifted(n, c, d) : n \in Range(measures[m].notes)}
             \cup {[column |-> c, rowId |-> h.rowId, duration |-> d]}
      /\ \A n \in Range(measures[m].notes) : Shifted(n, c, d).column >= n.column

\* C2: a committed insertion of duration d at column c of measure m moves
\* every earlier note of m with column >= c right by exactly d, leaves the
\* notes with column < c where they are, grows m by exactly d subdivisions,
\* adds exactly the note (c, voice, d) and leaves every other measure as it was.
C2_InsertionShifts ==
  [][(InsertClick /\ measures' # measures) => InsertionEffect(hoverSlot[1])]_vars

\* the state of the scenario after its second insertion: the snare note has
\* been shifted from column 4 to column 6 by the hi-hat note of duration 2
C2_Witness ==
  /\ Len(measures) = 1
  /\ measures[1] = [subdivisions |-> 19,
                    notes |-> << [column |-> 2, rowId |-> "hh", duration |-> 2],
                                 [column |-> 6, rowId |-> "sn", duration |-> 1] >>]

\* the hover addresses column c of measure 0 with voice r and duration d
HoverIs(c, r, d) ==
  /\ hoverSlot # Null
  /\ hoverSlot[1].measureIndex = 0
  /\ hoverSlot[1].columnInMeasure = c
  /\ hoverSlot[1].rowId = r
  /\ hoverSlot[1].duration = d

\* the scores of the scenario: at start, after the first, the second and the
\* third insertion
Scenario0 == <<EmptyMeasure>>
Scenario1 ==
  << [subdivisions |-> 17,
      notes |-> << [column |-> 4, rowId |-> "sn", duration |-> 1] >>] >>
Scenario2 ==
  << [subdivisions |-> 19,
      notes |-> << [column |-> 2, rowId |-> "hh", duration |-> 2],
                   [column |-> 6, rowId |-> "sn", duration |-> 1] >>] >>
Scenario3 ==
  << [subdivisions |-> 20,
      notes |-> << [column |-> 2, rowId |-> "hh", duration |-> 2],
                   [column |-> 6, rowId |-> "sn", duration |-> 1],
                   [column |-> 7, rowId |-> "sn", duration |-> 1] >>] >>

\* a click on the score pre with the hover at (c, r, d) gives the score post
ScenarioStep(pre, c, r, d, post) ==
  (measures = pre /\ HoverIs(c, r, d) /\ InsertClick) => measures' = post

\* C3 as stated: from one empty 16-subdivision measure, (4, sn, 1) gives 17
\* subdivisions and that note; (2, hh, 2) then gives 19 subdivisions and the
\* notes (2, hh, 2), (6, sn, 1); a further (6, sn, 1) is rejected and leaves
\* the measure as it was.
C3_Original ==
  [][/\ ScenarioStep(Scenario0, 4, "sn", 1, Scenario1)
     /\ ScenarioStep(Scenario1, 2, "hh", 2, Scenario2)
     /\ ScenarioStep(Scenario2, 6, "sn", 1, Scenario2)]_vars

\* C3 amended: the first two insertions are as stated; the third insertion,
\* (6, sn, 1), is committed like any other: the snare note at column 6 is
\* shifted to column 7 and the measure has 20 subdivisions and the notes
\* (2, hh, 2), (6, sn, 1), (7, sn, 1).
C3_ScenarioCommits ==
  [][/\ ScenarioStep(Scenario0, 4, "sn", 1, Scenario1)
     /\ ScenarioStep(Scenario1, 2, "hh", 2, Scenario2)
     /\ ScenarioStep(Scenario2, 6, "sn", 1, Scenario3)]_vars

\* the score after the third insertion of the scenario
C3_Witness == measures = Scenario3

\* the other measures, the current-measure index and the clipboard are left alone
OnlyMeasureChanges(k) ==
  /\ Len(measures') = Len(measures)
  /\ \A i \in 1..Len(measures) : i # k + 1 => measures'[i] = measures[i]

\* C4: clear leaves the current measure with the default subdivision count
\* and no notes, whatever it held, and leaves every other measure, the
\* current-measure index and the clipboard as they were.  (When the measure
\* has no notes the handler returns at once: the measure then already is the
\* default one.)
C4_ClearResets ==
  /\ [](\A m \in 1..Len(measures) :
          Len(measures[m].notes) = 0 => measures[m] = EmptyMeasure)
  /\ [][HandleClear =>
          /\ measures'[currentMeasure + 1] = EmptyMeasure
          /\ OnlyMeasureChanges(currentMeasure)
          /\ currentMeasure' = currentMeasure
          /\ clipboard' = clipboard]_vars

\* the only measure is empty while the clipboard holds what was copied from
\* it: it has been cleared after the copy
C4_Witness ==
  /\ Len(measures) = 1
  /\ clipboard # Null
  /\ measures[1] = EmptyMeasure

\* C5: copy of the current measure followed at once by paste leaves the
\* measures and the current-measure index as they were before the copy:
\* copy changes neither and puts the current measure's content on the
\* clipboard, and pasting that content over the current measure gives the
\* measures back.
C5_CopyThenPaste ==
  /\ [](variant # "single" =>
          PasteMeasure(measures, currentMeasure,
                       CopyMeasure(measures, currentMeasure)[1]) = measures)
  /\ [][HandleCopyMeasure =>
          /\ measures' = measures
          /\ currentMeasure' = currentMeasure
          /\ clipboard' = Some(measures[currentMeasure + 1])]_vars
  /\ [][(HandlePasteMeasure /\ clipboard = Some(measures[currentMeasure + 1])) =>
          /\ measures' = measures
          /\ currentMeasure' = currentMeasure]_vars

\* strip variant, where the hover survives click and copy and is cleared by
\* paste: the clipboard holds the content of the current measure and the
\* hover is gone
C5_Witness ==
  /\ variant = "strip"
  /\ clipboard = Some(measures[currentMeasure + 1])
  /\ hoverSlot = Null
  /\ Len(measures) = 1

\* C6: the clipboard is changed by copy alone and copy sets it to the content
\* of the current measure; so after a copy of measure m and any later events
\* other than copy, a paste into the current measure k makes k's subdivision
\* count and notes equal to m's content at the time of the copy, and a second
\* paste of the same clipboard changes nothing.
C6_PasteSnapshot ==
  /\ [][clipboard' # clipboard => HandleCopyMeasure]_vars
  /\ [][HandleCopyMeasure => clipboard' = Some(measures[currentMeasure + 1])]_vars
  /\ [][(HandlePasteMeasure /\ clipboard # Null) =>
          /\ measures'[currentMeasure + 1] = clipboard[1]
          /\ OnlyMeasureChanges(currentMeasure)]_vars
  /\ [](clipboard # Null /\ variant # "single" =>
          LET once == PasteMeasure(measures, currentMeasure, clipboard[1])
          IN  PasteMeasure(once, currentMeasure, clipboard[1]) = once)

\* the clipboard's content is in the second measure and no longer in the
\* first, where the notes of the score come from
C6_Witness ==
  /\ Len(measures) = 2
  /\ currentMeasure = 1
  /\ clipboard # Null
  /\ measures[2] = clipboard[1]
  /\ measures[1] = EmptyMeasure
  /\ hoverSlot = Null

\* C7: add-measure appends one empty default measure at the end, so the
\* measure count grows by exactly 1 and the existing measures stay, and the
\* current-measure index becomes the index of the new last measure.
C7_AddMeasure ==
  [][HandleAddMeasure =>
       /\ Len(measures') = Len(measures) + 1
       /\ \A i \in 1..Len(measures) : measures'[i] = measures[i]
       /\ measures'[Len(measures')] = EmptyMeasure
       /\ currentMeasure' = Len(measures') - 1]_vars

\* a second, empty measure is the current one behind a first measure with notes
C7_Witness ==
  /\ Len(measures) = 2
  /\ currentMeasure = 1
  /\ measures[2] = EmptyMeasure
  /\ measures[1] # EmptyMeasure

\* C8: 0 <= current-measure index < number of measures in every reachable
\* state; previous at index 0 and next at the last index leave the index, and
\* otherwise they move it by exactly one.
C8_IndexInRange ==
  /\ [](0 <= currentMeasure /\ currentMeasure < Len(measures))
  /\ [][HandlePrevMeasure =>
          currentMeasure' = IF currentMeasure = 0 THEN 0 ELSE currentMeasure - 1]_vars
  /\ [][HandleNextMeasure =>
          currentMeasure' = IF currentMeasure = Len(measures) - 1
                              THEN currentMeasure
                              ELSE currentMeasure + 1]_vars

\* two measures with the first one current: previous has moved the index
\* back from the measure that add-measure made current
C8_Witness ==
  /\ Len(measures) = 2
  /\ currentMeasure = 0

\* C9 as stated: after every click processed while a hover descriptor is
\* present the hover is absent, in every variant.
C9_Original ==
  [][((HandleClick \/ SingleHandleClick) /\ hoverSlot # Null) => hoverSlot' = Null]_vars

\* C9 amended: after a click processed while a hover descriptor is present
\* the hover is absent in the rows variant, and is the same descriptor as
\* before the click in the strip and single-measure variants; in every
\* variant an absent hover stays absent until a pointer move.
C9_ClickHover ==
  /\ [][HandleClick =>
          hoverSlot' = IF variant = "rows" THEN Null ELSE hoverSlot]_vars
  /\ [][SingleHandleClick => hoverSlot' = hoverSlot]_vars
  /\ [][(hoverSlot = Null /\ hoverSlot' # Null) =>
          (HandlePointerMoveStrip \/ HandlePointerMoveRows \/ SingleHandlePointerMove)]_vars

\* rows variant with a note in the score and no hover, as a click leaves it
C9_Witness ==
  /\ variant = "rows"
  /\ hoverSlot = Null
  /\ TotalNotes(measures) = 1
  /\ clipboard = Null
  /\ Len(measures) = 1

\* C10 as stated: a click never changes a measure whose index differs from
\* the current-measure index.
C10_Original ==
  [][HandleClick => OnlyMeasureChanges(currentMeasure)]_vars

\* C10 amended: clear and paste change no measure but the one at the
\* current-measure index and copy reads that one; a click changes no measure
\* but the one the hover addresses (hoverSlot.measureIndex), which need not be
\* the current measure.
C10_EditTargets ==
  /\ [][HandleClick => OnlyMeasureChanges(hoverSlot[1].measureIndex)]_vars
  /\ [][(HandleClear \/ HandlePasteMeasure) => OnlyMeasureChanges(currentMeasure)]_vars
  /\ [][HandleCopyMeasure =>
          measures' = measures /\ clipboard' = Some(measures[currentMeasure + 1])]_vars

\* strip variant: the second measure is current, and the first measure holds
\* the note of the hover that addresses it
C10_Witness ==
  /\ variant = "strip"
  /\ currentMeasure = 1
  /\ hoverSlot # Null
  /\ hoverSlot[1].measureIndex = 0
  /\ \E i \in 1..Len(measures[1].notes) :
       /\ measures[1].notes[i].column = hoverSlot[1].columnInMeasure
       /\ measures[1].notes[i].rowId = hoverSlot[1].rowId
       /\ measures[1].notes[i].duration = hoverSlot[1].duration

\* every note of the measure m lies inside m's grid
InsideGrid(m) ==
  \A i \in 1..Len(m.notes) :
    /\ 0 <= m.notes[i].column
    /\ m.notes[i].duration >= 1
    /\ m.notes[i].column + m.notes[i].duration <= m.subdivisions

\* C11: in every reachable state every note of every measure lies inside its
\* measure's grid: 0 <= column, duration >= 1 and column + duration <= the
\* measure's subdivision count.
C11_NotesInsideGrid == \A m \in 1..Len(measures) : InsideGrid(measures[m])

\* a note of duration 2 sits at a column behind the default grid, in the
\* part of the measure that earlier insertions added
C11_Witness ==
  \E m \in 1..Len(measures) : \E i \in 1..Len(measures[m].notes) :
    /\ measures[m].notes[i].column >= DEFAULT_SUBDIVISIONS
    /\ measures[m].notes[i].duration = 2

\* twice the distance between the pointer's x and the x of the column c it
\* was mapped to, times COLUMN_STEP_den; c is local to the staff under the pointer
RoundTrip_x2Den(x, c) == 2 * Abs(x * COLUMN_STEP_den - xForColumn_xDen(c))

\* the round trip of the pointer p through the hover that the step sets, in
\* each variant, is within the relation within(error, x, column), error
\* being RoundTrip_x2Den
RoundTripIs(within(_, _, _)) ==
  \A p \in SpecPointers :
    /\ (PointerAtStrip(p) /\ hoverSlot' # Null) =>
         within(RoundTrip_x2Den(p[1], hoverSlot'[1].column), p[1], hoverSlot'[1].column)
    /\ (PointerAtSingle(p) /\ hoverSlot' # Null) =>
         within(RoundTrip_x2Den(p[1], hoverSlot'[1].column), p[1], hoverSlot'[1].column)
    /\ \A rowIndex \in 0..(NumRows(measures) - 1) :
         (PointerAtRows(rowIndex, p) /\ hoverSlot' # Null) =>
           /\ 2 * Abs(p[1] * COLUMN_STEP_den
                        - xForColumnInRow_xDen(hoverSlot'[1].column, hoverSlot'[1].rowStart))
                = RoundTrip_x2Den(p[1], hoverSlot'[1].column - hoverSlot'[1].rowStart)
           /\ within(RoundTrip_x2Den(p[1], hoverSlot'[1].column - hoverSlot'[1].rowStart),
                     p[1], hoverSlot'[1].column - hoverSlot'[1].rowStart)

StrictlyWithinHalfStep(error, x, c) == error < COLUMN_STEP_num
WithinHalfStep(error, x, c) ==
  /\ error <= COLUMN_STEP_num
  /\ error = COLUMN_STEP_num => x * COLUMN_STEP_den < xForColumn_xDen(c)

\* C12 as stated: for every pointer x whose column lookup is not rejected,
\* |x - xForColumn(nearest column)| is strictly less than COLUMN_STEP / 2.
C12_Original == [][RoundTripIs(StrictlyWithinHalfStep)]_vars

\* C12 amended: for every pointer x whose column lookup is not rejected,
\* |x - xForColumn(nearest column)| is at most COLUMN_STEP / 2, and equal to
\* it only when x is exactly halfway between two columns, where the lookup
\* takes the right-hand one.
C12_RoundTrip == [][RoundTripIs(WithinHalfStep)]_vars

\* the hover is on column 8 of the only measure: of the pointer positions of
\* the pointer sessions only x = 460, halfway between the columns 7 and 8,
\* is mapped there
C12_Witness ==
  /\ variant = "strip"
  /\ Len(measures) = 1
  /\ hoverSlot # Null
  /\ hoverSlot[1].column = 8

\* twice the distance between the line of the voice NOTE_ROWS[v] and the
\* pointer's y, y in halves of a viewBox unit
VoiceDistance_x2(v, y) == Abs(2 * yForRow(NOTE_ROWS[v].row) - y)

MinVoiceDistance_x2(y) ==
  CHOOSE d \in {VoiceDistance_x2(v, y) : v \in 1..Len(NOTE_ROWS)} :
    \A v \in 1..Len(NOTE_ROWS) : d <= VoiceDistance_x2(v, y)

\* the first voice in declared order among those nearest to y
NearestVoice(y) ==
  LET v == CHOOSE w \in 1..Len(NOTE_ROWS) :
             /\ VoiceDistance_x2(w, y) = MinVoiceDistance_x2(y)
             /\ \A u \in 1..(w - 1) : VoiceDistance_x2(u, y) > MinVoiceDistance_x2(y)
  IN  NOTE_ROWS[v].id

\* the nearest line is farther than 1.25 x (lineSpacing / 2) from y
TooFar(y) == MinVoiceDistance_x2(y) * 4 > 5 * STAFF_lineSpacing

\* the rounded column of the pointer's x lies in [0, n)
ColumnInRange(x, n) == 0 <= RoundColumn(x) /\ RoundColumn(x) < n

\* the voice lookup of a pointer move at height y whose column is in range
VoiceLookup(y) ==
  IF TooFar(y)
    THEN hoverSlot' = Null
    ELSE hoverSlot' # Null /\ hoverSlot'[1].rowId = NearestVoice(y)

\* C13: for every pointer y the voice lookup returns the voice whose line
\* minimizes |yForRow(v) - y| over the four voices, the first in declared
\* order (hh, sn, ht, bd) on a tie, and returns no match exactly when that
\* minimum exceeds 1.25 x (lineSpacing / 2) = 17.5; in all three variants.
C13_NearestVoice ==
  [][\A p \in SpecPointers :
       /\ (PointerAtStrip(p) /\ ColumnInRange(p[1], totalColumns(measures))) =>
            VoiceLookup(p[2])
       /\ (PointerAtSingle(p) /\ ColumnInRange(p[1], STAFF_subdivisions)) =>
            VoiceLookup(p[2])
       /\ \A rowIndex \in 0..(NumRows(measures) - 1) :
            (PointerAtRows(rowIndex, p)
               /\ ColumnInRange(p[1], rows(measures, rowIndex).subdivisions)) =>
              VoiceLookup(p[2])]_vars

\* single-measure variant with the hover on the snare: of the pointer
\* heights of the pointer sessions only the one halfway between snare and
\* high tom is mapped to the snare
C13_Witness ==
  /\ variant = "single"
  /\ hoverSlot # Null
  /\ hoverSlot[1].rowId = "sn"

\* C14: a pointer move whose rounded column is outside the addressable range
\* ([0, totalColumns) in the strip variant, [rowStart, rowStart +
\* rowSubdivisions) in the rows variant) or whose nearest voice is farther
\* than the threshold leaves the hover absent, whatever it was before, and
\* leaves measures, current-measure index, clipboard, zoom and selected
\* duration as they were.
C14_RejectedMoveClearsHover ==
  [][\A p \in SpecPointers :
       /\ (PointerAtStrip(p)
             /\ (~ColumnInRange(p[1], totalColumns(measures)) \/ TooFar(p[2]))) =>
            /\ hoverSlot' = Null
            /\ UNCHANGED <<measures, currentMeasure, clipboard, zoom, selectedDuration>>
       /\ \A rowIndex \in 0..(NumRows(measures) - 1) :
            (PointerAtRows(rowIndex, p)
               /\ LET row == rows(measures, rowIndex)
                      column == RoundColumn(p[1]) + row.start
                  IN  \/ column < row.start
                      \/ column >= row.start + row.subdivisions
                      \/ TooFar(p[2])) =>
              /\ hoverSlot' = Null
              /\ UNCHANGED <<measures, currentMeasure, clipboard, zoom, selectedDuration>>]_vars

\* rows variant with a second row, the longer note value selected and no
\* hover, as a rejected pointer move over either row leaves it
C14_Witness ==
  /\ variant = "rows"
  /\ NumRows(measures) = 2
  /\ selectedDuration = 2
  /\ hoverSlot = Null

\* C15: in every reachable state of the measure-based variants in which a
\* hover descriptor is present its duration is the selected duration; a
\* duration selection while hovering changes the descriptor's duration and
\* nothing else of it, with no pointer move; and the note that a click commits
\* has the duration selected at the moment of the click.
C15_HoverDuration ==
  /\ []((variant # "single" /\ hoverSlot # Null) =>
          hoverSlot[1].duration = selectedDuration)
  /\ [][(HandleNoteDurationChange /\ hoverSlot # Null) =>
          /\ hoverSlot' # Null
          /\ hoverSlot'[1].duration = selectedDuration'
          /\ hoverSlot' = Some([hoverSlot[1] EXCEPT !.duration = hoverSlot'[1].duration])]_vars
  /\ [][(HandleClick /\ measures' # measures) =>
          \E i \in 1..Len(measures'[hoverSlot[1].measureIndex + 1].notes) :
            LET n == measures'[hoverSlot[1].measureIndex + 1].notes[i]
            IN  /\ n.column = hoverSlot[1].columnInMeasure
                /\ n.rowId = hoverSlot[1].rowId
                /\ n.duration = selectedDuration]_vars

\* strip variant: the hover shows the longer note value on the slot where a
\* note of the shorter value was committed, the selection having changed
\* while the pointer rested
C15_Witness ==
  /\ variant = "strip"
  /\ hoverSlot # Null
  /\ hoverSlot[1].duration = 2
  /\ \E i \in 1..Len(measures[hoverSlot[1].measureIndex + 1].notes) :
       LET n == measures[hoverSlot[1].measureIndex + 1].notes[i]
       IN  /\ n.column = hoverSlot[1].columnInMeasure
           /\ n.rowId = hoverSlot[1].rowId
           /\ n.duration = 1

\* the global columns of the score ms
TotalSubdivisions(ms) == SumSubdivisions(ms, Len(ms))

\* (m, c) addresses the global column g of ms: c is a column of the measure
\* m and the measures before m hold g - c subdivisions
Addresses(ms, m, c, g) ==
  /\ m \in 0..(Len(ms) - 1)
  /\ 0 <= c
  /\ c < ms[m + 1].subdivisions
  /\ SumSubdivisions(ms, m) + c = g

\* locateMeasure on every global column of the score ms and on the two
\* columns behind its end
LocatesEveryColumn(ms) ==
  \A total \in {TotalSubdivisions(ms)} : \A g \in 0..(total + 2) :
    \A location \in {locateMeasure(ms, g)} :
      /\ location # Null
      /\ IF g < total
           THEN /\ Addresses(ms, location[1].measureIndex, location[1].columnInMeasure, g)
                /\ \A m \in 0..(Len(ms) - 1) :
                     \A c \in {g - SumSubdivisions(ms, m)} :
                       Addresses(ms, m, c, g) =>
                         /\ m = location[1].measureIndex
                         /\ c = location[1].columnInMeasure
           ELSE /\ location[1].measureIndex = Len(ms) - 1
                /\ location[1].columnInMeasure = ms[Len(ms)].subdivisions - 1

\* C16: for every reachable score and every global column g with 0 <= g <
\* total subdivisions, locateMeasure(g) is the one pair (m, c) with (sum of
\* the subdivisions of the measures before m) + c = g and 0 <= c <
\* subdivisions of m; for g >= total subdivisions it is the last measure with
\* c = its subdivisions - 1.  (Of the pairs with measure m only the one with
\* c = g - (sum before m) can address g: uniqueness is tested on these.)
C16_LocateMeasure == [](LocatesEveryColumn(measures))

\* two measures of different widths, and the hover is on the second one,
\* where locateMeasure has put it
C16_Witness ==
  /\ Len(measures) = 2
  /\ measures[1].subdivisions # measures[2].subdivisions
  /\ hoverSlot # Null
  /\ hoverSlot[1].measureIndex = 1
  /\ hoverSlot[1].column = TotalSubdivisions(<<measures[1]>>) + hoverSlot[1].columnInMeasure

\* C17: the score starts with exactly one empty default measure; the number
\* of measures never decreases, changes only in an add-measure step, then by
\* exactly +1, and is always >= 1.
C17_MeasureCount ==
  /\ measures = <<EmptyMeasure>>
  /\ [](Len(measures) >= 1)
  /\ [][Len(measures') >= Len(measures)]_vars
  /\ [][Len(measures') # Len(measures) =>
          (HandleAddMeasure /\ Len(measures') = Len(measures) + 1)]_vars

\* two measures, both empty, while the clipboard holds notes: a measure was
\* added, and the notes copied from the score have been cleared since
C17_Witness ==
  /\ measures = <<EmptyMeasure, EmptyMeasure>>
  /\ clipboard # Null

\* C18: after a pointer-leave, a 'previous', a 'next' or an add-measure event
\* the hover is absent, whatever it was before and whether or not the
\* current-measure index changed: every such step ends without hover, and in
\* every state, on the first and the last measure too, each of these events
\* has a step that does.
C18_HoverCleared ==
  /\ [][(HandleMouseLeave \/ HandlePrevMeasure \/ HandleNextMeasure \/ HandleAddMeasure) =>
          hoverSlot' = Null]_vars
  /\ [](ENABLED (HandleMouseLeave /\ hoverSlot' = Null))
  /\ [](variant # "single" =>
          /\ ENABLED (HandlePrevMeasure /\ hoverSlot' = Null)
          /\ ENABLED (HandleNextMeasure /\ hoverSlot' = Null))
  /\ []((variant # "single" /\ Len(measures) < MaxMeasures) =>
          ENABLED (HandleAddMeasure /\ hoverSlot' = Null))

\* strip variant, where a click leaves the hover: the only measure holds two
\* notes, nothing was copied, the first measure is current and the hover is
\* gone
C18_Witness ==
  /\ variant = "strip"
  /\ Len(measures) = 1
  /\ TotalNotes(measures) = 2
  /\ clipboard = Null
  /\ hoverSlot = Null

\* C19: in every reachable state the flattened note list has exactly one
\* entry per note of every measure, with global column = (sum of the
\* subdivision counts of the measures before) + the note's column, and is
\* strictly increasing in (global column, voice order), so that no two
\* entries share global column and voice.
C19_FlattenedNotes ==
  LET flattened == flattenedNotes(measures)
  IN  /\ Len(flattened) = TotalNotes(measures)
      /\ \A m \in 1..Len(measures) : \A i \in 1..Len(measures[m].notes) :
           \E k \in 1..Len(flattened) :
             flattened[k] =
               [column |-> SumSubdivisions(measures, m - 1) + measures[m].notes[i].column,
                rowId |-> measures[m].notes[i].rowId,
                duration |-> measures[m].notes[i].duration]
      /\ \A k \in 1..(Len(flattened) - 1) :
           \/ flattened[k].column < flattened[k + 1].column
           \/ /\ flattened[k].column = flattened[k + 1].column
              /\ rowOrder(flattened[k].rowId) < rowOrder(flattened[k + 1].rowId)
      /\ \A j, k \in 1..Len(flattened) :
           (flattened[j].column = flattened[k].column
              /\ flattened[j].rowId = flattened[k].rowId) => j = k

\* a note in each of two measures, the one of the second measure at the
\* smaller column within its measure: the offsets decide the order of the list
C19_Witness ==
  /\ Len(measures) = 2
  /\ Len(measures[1].notes) = 1
  /\ Len(measures[2].notes) = 1
  /\ measures[2].notes[1].column < measures[1].notes[1].column

\* the slot spans [column, column + duration) of the notes a and b intersect
SpansIntersect(a, b) ==
  a.column < b.column + b.duration /\ b.column < a.column + a.duration

\* C20: in every reachable state no two notes of the same voice in one
\* measure have intersecting slot spans [column, column + duration).
C20_NoOverlap ==
  \A m \in 1..Len(measures) : \A i, j \in 1..Len(measures[m].notes) :
    (i # j /\ measures[m].notes[i].rowId = measures[m].notes[j].rowId) =>
      ~SpansIntersect(measures[m].notes[i], measures[m].notes[j])

\* C21: paste while no clipboard has been set, and clear while the current
\* measure has no notes, are no-ops: in every such state of the measure-based
\* variants the handler runs (it is enabled: no error) and has no step that
\* changes measures, current-measure index, clipboard, hover, zoom or
\* selected duration; nor does any step of theirs taken from such a state.
C21_NoOps ==
  /\ []((variant # "single" /\ clipboard = Null) =>
          /\ ENABLED HandlePasteMeasure
          /\ ~ENABLED (HandlePasteMeasure /\ vars' # vars))
  /\ []((variant # "single" /\ Len(measures[currentMeasure + 1].notes) = 0) =>
          /\ ENABLED HandleClear
          /\ ~ENABLED (HandleClear /\ vars' # vars))
  /\ [][(HandlePasteMeasure /\ clipboard = Null) => UNCHANGED vars]_vars
  /\ [][(HandleClear /\ Len(measures[currentMeasure + 1].notes) = 0) =>
          UNCHANGED vars]_vars

\* strip variant: nothing was copied, the current measure is the empty second
\* one, and a hover rests on the first measure, which holds a note: paste and
\* clear both have something to lose here
C21_Witness ==
  /\ variant = "strip"
  /\ clipboard = Null
  /\ Len(measures) = 2
  /\ currentMeasure = 1
  /\ Len(measures[2].notes) = 0
  /\ Len(measures[1].notes) = 1
  /\ hoverSlot # Null
  /\ hoverSlot[1].measureIndex = 0

\* the click on the hover h adds exactly one note to the measure h addresses
\* and grows that measure by h's duration, ms being the score before and
\* after the score after the click
CommitsOneNote(ms, h, after) ==
  /\ Len(after) = Len(ms)
  /\ Len(after[h.measureIndex + 1].notes) = Len(ms[h.measureIndex + 1].notes) + 1
  /\ after[h.measureIndex + 1].subdivisions =
       ms[h.measureIndex + 1].subdivisions + h.duration
  /\ h.duration >= 1
  /\ ~\E i \in 1..Len(ms[h.measureIndex + 1].notes) :
        /\ Shifted(ms[h.measureIndex + 1].notes[i], h.columnInMeasure, h.duration).column
             = h.columnInMeasure
        /\ ms[h.measureIndex + 1].notes[i].rowId = h.rowId

\* C22: in the measure-based variants the conflict branch of the insertion
\* is never taken: every click processed while a hover is present adds
\* exactly one note to the hovered measure and grows it by the hover's
\* duration, no note being left at the hover's column once the notes at or
\* behind it have moved by duration >= 1.  The first conjunct states it of
\* every click step, the second of the click that every state with a hover
\* offers (in the strip variant a rejected click would change nothing and
\* leave no step to look at).
C22_ConflictNeverTaken ==
  /\ [][InsertClick => CommitsOneNote(measures, hoverSlot[1], measures')]_vars
  /\ [](hoverSlot # Null =>
          CommitsOneNote(measures, hoverSlot[1], ClickMeasures(measures, hoverSlot[1])))

\* the only measure holds two snare notes at the columns 6 and 7 and nothing
\* else: the pointer positions of the insertion sessions reach column 6 and
\* none behind it, so the second click went to the slot the first had filled
C22_Witness ==
  /\ Len(measures) = 1
  /\ measures[1] = [subdivisions |-> 18,
                    notes |-> << [column |-> 6, rowId |-> "sn", duration |-> 1],
                                 [column |-> 7, rowId |-> "sn", duration |-> 1] >>]

RECURSIVE SumDurations(_)
\* the sum of the durations of the notes ns
SumDurations(ns) ==
  IF ns = <<>> THEN 0 ELSE Head(ns).duration + SumDurations(Tail(ns))

\* the measure m is as wide as the default grid and its notes together
WidthMatchesNotes(m) == m.subdivisions = STAFF_subdivisions + SumDurations(m.notes)

\* C23: in every reachable state every measure's subdivision count is the
\* default 16 plus the sum of the durations of its notes (16 for a measure
\* without notes), and so is the clipboard's when a clipboard is set.
C23_WidthMatchesNotes ==
  /\ \A m \in 1..Len(measures) : WidthMatchesNotes(measures[m])
  /\ clipboard # Null => WidthMatchesNotes(clipboard[1])

\* the clipboard holds a measure of 18 subdivisions with one note of duration
\* 2, and the measure it was copied from has since been cleared and holds
\* one note of duration 1 in 17 subdivisions
C23_Witness ==
  /\ Len(measures) = 1
  /\ clipboard # Null
  /\ clipboard[1].subdivisions = 18
  /\ Len(clipboard[1].notes) = 1
  /\ measures[1].subdivisions = 17
  /\ Len(measures[1].notes) = 1

\* C24: in every reachable state of the measure-based variants in which a
\* hover is present, also after a click in the strip variant, which keeps
\* the hover, the hover addresses a slot of the score: measureIndex < number
\* of measures, 0 <= columnInMeasure < that measure's subdivision count, and
\* column = (sum of the subdivision counts of the measures before) +
\* columnInMeasure.
C24_HoverAddressesSlot ==
  (variant # "single" /\ hoverSlot # Null) =>
    /\ 0 <= hoverSlot[1].measureIndex
    /\ hoverSlot[1].measureIndex < Len(measures)
    /\ 0 <= hoverSlot[1].columnInMeasure
    /\ hoverSlot[1].columnInMeasure < measures[hoverSlot[1].measureIndex + 1].subdivisions
    /\ hoverSlot[1].column =
         SumSubdivisions(measures, hoverSlot[1].measureIndex) + hoverSlot[1].columnInMeasure

\* strip variant: the hover rests on column 16 of the first measure, a column
\* that earlier insertions added, and the note committed from it is there
C24_Witness ==
  /\ variant = "strip"
  /\ hoverSlot # Null
  /\ hoverSlot[1].measureIndex = 0
  /\ hoverSlot[1].columnInMeasure = STAFF_subdivisions
  /\ \E i \in 1..Len(measures[1].notes) :
       /\ measures[1].notes[i].column = STAFF_subdivisions
       /\ measures[1].notes[i].rowId = hoverSlot[1].rowId

====
